---------------------------- MODULE Spec2Model ----------------------------
(***************************************************************************)
(* A model of src/main.rs of the crc32 command line tool: the chunked      *)
(* checksum loop (crc32), the file enumeration (get_files, get_all_files), *)
(* the generation of an SFV document (create_sfv), its verification        *)
(* (verify_sfv) and the exit code main derives from them.                  *)
(*                                                                         *)
(* Text is a sequence of characters (one-character strings); a path is     *)
(* text, as a PathBuf is.  Rust's str::len and str slicing count UTF-8      *)
(* bytes, so every character has its UTF-8 encoding (Utf8).                 *)
(***************************************************************************)
EXTENDS Integers, Sequences, FiniteSets, TLC

(***************************** bounds **************************************)
\* Longest file content (in bytes) fed to the chunked crc32 loop.
MaxBytes == 3
\* The read buffer of crc32.  The program's CHUNK_SIZE is 1024 * 1024; the
\* model scales the buffer down, the loop is the same.
CHUNK_SIZE == 2

(***************************** characters **********************************)
\* The one non-ASCII character of the model: U+00E9, two bytes in UTF-8.
EAcute == "U+00E9"

\* Unicode code point of the characters the model uses.
Code(c) ==
  CASE c = "\t" -> 9  [] c = "\n" -> 10 [] c = "\r" -> 13 [] c = " " -> 32
    [] c = "-" -> 45  [] c = "." -> 46  [] c = "/" -> 47
    [] c = "0" -> 48  [] c = "1" -> 49  [] c = "2" -> 50  [] c = "3" -> 51
    [] c = "4" -> 52  [] c = "5" -> 53  [] c = "6" -> 54  [] c = "7" -> 55
    [] c = "8" -> 56  [] c = "9" -> 57  [] c = ";" -> 59
    [] c = "A" -> 65  [] c = "B" -> 66  [] c = "C" -> 67  [] c = "D" -> 68
    [] c = "E" -> 69  [] c = "F" -> 70  [] c = "Z" -> 90
    [] c = "a" -> 97  [] c = "b" -> 98  [] c = "c" -> 99  [] c = "d" -> 100
    [] c = "e" -> 101 [] c = "f" -> 102 [] c = "n" -> 110 [] c = "o" -> 111
    [] c = "s" -> 115 [] c = "t" -> 116 [] c = "u" -> 117 [] c = "v" -> 118
    [] c = "w" -> 119 [] c = "x" -> 120 [] c = "y" -> 121 [] c = "z" -> 122
    [] c = EAcute -> 233

\* UTF-8 encoding of a character: one byte below U+0080, two bytes below U+0800.
Utf8(c) ==
  IF Code(c) < 128 THEN << Code(c) >>
  ELSE << 192 + (Code(c) \div 64), 128 + (Code(c) % 64) >>

RECURSIVE Bytes(_)
\* The UTF-8 bytes of a text.
Bytes(s) == IF s = << >> THEN << >> ELSE Utf8(Head(s)) \o Bytes(Tail(s))

\* str::len: the length in bytes.
ByteLen(s) == Len(Bytes(s))

\* char::is_whitespace, on the characters of the model.
IsWhitespace(c) == c \in {" ", "\t", "\n", "\r"}

RECURSIVE TrimStart(_)
TrimStart(s) ==
  IF s # << >> /\ IsWhitespace(Head(s)) THEN TrimStart(Tail(s)) ELSE s

RECURSIVE TrimEnd(_)
TrimEnd(s) ==
  IF s # << >> /\ IsWhitespace(s[Len(s)]) THEN TrimEnd(SubSeq(s, 1, Len(s) - 1)) ELSE s

\* str::trim
Trim(s) == TrimEnd(TrimStart(s))

\* char::to_uppercase, on the characters of the model.
UpperChar(c) ==
  CASE c = "a" -> "A" [] c = "b" -> "B" [] c = "c" -> "C" [] c = "d" -> "D"
    [] c = "e" -> "E" [] c = "f" -> "F" [] c = "z" -> "Z"
    [] c = "n" -> "N" [] c = "o" -> "O" [] c = "s" -> "S" [] c = "t" -> "T"
    [] c = "u" -> "U" [] c = "v" -> "V" [] c = "w" -> "W" [] c = "x" -> "X"
    [] c = "y" -> "Y" [] c = EAcute -> "U+00C9"
    [] OTHER -> c

\* str::to_uppercase
ToUppercase(s) == [i \in 1..Len(s) |-> UpperChar(s[i])]

(***************************** CRC-32 **************************************)
(* A 32-bit word is a sequence of 32 bits, bit 1 the least significant.    *)
(* crc32fast is an external crate; Hasher is the CRC-32/ISO-HDLC it        *)
(* implements, with the state it keeps between two calls of update (the    *)
(* checksum of the bytes seen so far).                                     *)
(***************************************************************************)
\* A word built bit by bit, as an explicit sequence.
Word(f) == SubSeq(f, 1, 32)
Zero32 == Word([i \in 1..32 |-> 0])
Ones32 == Word([i \in 1..32 |-> 1])
Xor32(a, b) == Word([i \in 1..32 |-> (a[i] + b[i]) % 2])
Not32(a) == Word([i \in 1..32 |-> 1 - a[i]])
Shr1(a) == Tail(a) \o << 0 >>
ByteWord(b) == Word([i \in 1..32 |-> IF i <= 8 THEN (b \div (2 ^ (i - 1))) % 2 ELSE 0])
\* The word of 8 hexadecimal digits (values 0..15), most significant first.
WordOfNibbles(h) ==
  Word([i \in 1..32 |-> (h[8 - ((i - 1) \div 4)] \div (2 ^ ((i - 1) % 4))) % 2])
\* The nibbles of a word, most significant first.
NibblesOfWord(w) ==
  [k \in 1..8 |-> w[4 * (8 - k) + 1] + 2 * w[4 * (8 - k) + 2]
                  + 4 * w[4 * (8 - k) + 3] + 8 * w[4 * (8 - k) + 4]]

\* The reflected polynomial 0xEDB88320.
Poly == WordOfNibbles(<< 14, 13, 11, 8, 8, 3, 2, 0 >>)

CrcShift(c) == IF c[1] = 1 THEN Xor32(Shr1(c), Poly) ELSE Shr1(c)
CrcByte(c, b) ==
  CrcShift(CrcShift(CrcShift(CrcShift(CrcShift(CrcShift(CrcShift(CrcShift(
    Xor32(c, ByteWord(b))))))))))

RECURSIVE CrcFold(_, _)
CrcFold(c, bytes) ==
  IF bytes = << >> THEN c ELSE CrcFold(CrcByte(c, Head(bytes)), Tail(bytes))

\* The reference CRC-32/ISO-HDLC of a byte sequence: register preset to all
\* ones, every byte folded in, the result complemented.
Crc32Ref(bytes) == Not32(CrcFold(Ones32, bytes))

HasherNew == Zero32
HasherUpdate(h, bytes) == Not32(CrcFold(Not32(h), bytes))
HasherFinalize(h) == h

HexDigits == << "0", "1", "2", "3", "4", "5", "6", "7", "8", "9", "A", "B", "C", "D", "E", "F" >>
\* format!("{:08X}"): eight uppercase hexadecimal digits.
Hex8(w) == [k \in 1..8 |-> HexDigits[NibblesOfWord(w)[k] + 1]]

Min(a, b) == IF a < b THEN a ELSE b

\* Result<u32>: Ok(checksum) or Err.
CrcOk(w) == [ok |-> TRUE, val |-> w]
CrcErr == [ok |-> FALSE, val |-> Zero32]

(***************************** paths ***************************************)
Slash == "/"

RECURSIVE SplitOn(_, _)
\* The pieces of a text between the occurrences of a separator.
SplitOn(s, sep) ==
  IF \A i \in 1..Len(s) : s[i] # sep THEN << s >>
  ELSE LET k == CHOOSE i \in 1..Len(s) : s[i] = sep /\ \A j \in 1..(i - 1) : s[j] # sep
       IN << SubSeq(s, 1, k - 1) >> \o SplitOn(SubSeq(s, k + 1, Len(s)), sep)

RECURSIVE JoinWith(_, _)
\* The pieces joined by a separator.
JoinWith(parts, sep) ==
  IF parts = << >> THEN << >>
  ELSE IF Len(parts) = 1 THEN parts[1]
  ELSE parts[1] \o << sep >> \o JoinWith(Tail(parts), sep)

IsAbsolute(p) == p # << >> /\ p[1] = Slash

\* The non-empty pieces of a path between its separators.
Parts(p) == SelectSeq(SplitOn(p, Slash), LAMBDA part : part # << >>)

\* PathBuf::join and DirEntry::path: the name pushed onto the directory.
PathJoin(dir, name) ==
  IF IsAbsolute(name) THEN name
  ELSE IF dir = << >> \/ dir[Len(dir)] = Slash THEN dir \o name
  ELSE dir \o << Slash >> \o name

\* Path::components, each component as the key std orders it by: the variants
\* of Component in their declared order (RootDir, CurDir, ParentDir, Normal),
\* a Normal followed by the bytes of its name.  A "." is a component only at
\* the start of a relative path; repeated separators yield none.
Components(p) ==
  LET parts == Parts(p)
      keyOf(i) ==
        IF parts[i] = << "." >> THEN << 2 >>
        ELSE IF parts[i] = << ".", "." >> THEN << 3 >>
        ELSE << 4 >> \o Bytes(parts[i])
      kept == SelectSeq([i \in 1..Len(parts) |-> i],
                        LAMBDA i : parts[i] # << "." >> \/ (i = 1 /\ ~IsAbsolute(p)))
  IN (IF IsAbsolute(p) THEN << << 1 >> >> ELSE << >>) \o [j \in 1..Len(kept) |-> keyOf(kept[j])]

RECURSIVE CmpBytes(_, _)
\* The lexicographic comparison of two sequences of numbers: -1, 0 or 1.
CmpBytes(a, b) ==
  IF a = << >> THEN (IF b = << >> THEN 0 ELSE -1)
  ELSE IF b = << >> THEN 1
  ELSE IF Head(a) < Head(b) THEN -1
  ELSE IF Head(a) > Head(b) THEN 1
  ELSE CmpBytes(Tail(a), Tail(b))

RECURSIVE CmpComponents(_, _)
CmpComponents(a, b) ==
  IF a = << >> THEN (IF b = << >> THEN 0 ELSE -1)
  ELSE IF b = << >> THEN 1
  ELSE LET c == CmpBytes(Head(a), Head(b))
       IN IF c # 0 THEN c ELSE CmpComponents(Tail(a), Tail(b))

\* Ord for Path: the components compared one by one.
PathCmp(a, b) == CmpComponents(Components(a), Components(b))

\* Ord for str: the bytes compared one by one.
StrCmp(a, b) == CmpBytes(Bytes(a), Bytes(b))

RECURSIVE InsertSorted(_, _)
InsertSorted(sorted, x) ==
  IF sorted = << >> THEN << x >>
  ELSE IF PathCmp(x, Head(sorted)) < 0 THEN << x >> \o sorted
  ELSE << Head(sorted) >> \o InsertSorted(Tail(sorted), x)

RECURSIVE StableSort(_)
StableSort(s) ==
  IF s = << >> THEN << >> ELSE InsertSorted(StableSort(SubSeq(s, 1, Len(s) - 1)), s[Len(s)])

NoSort(fileList) == fileList

\* files.sort(): the stable sort of a Vec<PathBuf> by Ord for Path.
SortFiles(fileList) == StableSort(fileList)

(***************************** the file system *****************************)
(* fs maps the canonical absolute path of every node to the node: a        *)
(* directory or a regular file with its text.  There are no symbolic       *)
(* links, so the canonical form of a path is the absolute path the kernel  *)
(* resolves it to.  A node's status says which call fails on it:           *)
(*   file: "noopen" File::open, "readerr" a read, "nocanon" fs::canonicalize, *)
(*         "badentry" the directory entry read_dir yields for it;          *)
(*   directory: "nolist" fs::read_dir.                                     *)
(***************************************************************************)
Dir(status) == [kind |-> "dir", text |-> << >>, status |-> status]
File(text, status) == [kind |-> "file", text |-> text, status |-> status]

Exists(f, abs) == abs \in DOMAIN f
IsDirNode(f, abs) == Exists(f, abs) /\ f[abs].kind = "dir"
IsFileNode(f, abs) == Exists(f, abs) /\ f[abs].kind = "file"

\* The canonical text of a list of names below the root.
AbsText(names) == << Slash >> \o JoinWith(names, Slash)

RECURSIVE Walk(_, _, _)
\* The kernel's walk from the directory `at` (a list of names below the root)
\* along the pieces of a path: every directory stepped through must exist.
Walk(f, at, parts) ==
  IF parts = << >> THEN [ok |-> Exists(f, AbsText(at)), path |-> AbsText(at)]
  ELSE IF ~IsDirNode(f, AbsText(at)) THEN [ok |-> FALSE, path |-> << >>]
  ELSE IF Head(parts) = << "." >> THEN Walk(f, at, Tail(parts))
  ELSE IF Head(parts) = << ".", "." >>
    THEN Walk(f, IF at = << >> THEN at ELSE SubSeq(at, 1, Len(at) - 1), Tail(parts))
  ELSE Walk(f, Append(at, Head(parts)), Tail(parts))

\* The node a path names for a process whose working directory is wd: the
\* empty path names nothing.
Resolve(f, wd, p) ==
  IF p = << >> THEN [ok |-> FALSE, path |-> << >>]
  ELSE Walk(f, IF IsAbsolute(p) THEN << >> ELSE Parts(wd), Parts(p))

\* Path::is_dir, Path::is_file
IsDir(f, wd, p) == LET r == Resolve(f, wd, p) IN r.ok /\ f[r.path].kind = "dir"
IsFile(f, wd, p) == LET r == Resolve(f, wd, p) IN r.ok /\ f[r.path].kind = "file"

\* fs::canonicalize
Canonicalize(f, wd, p) ==
  LET r == Resolve(f, wd, p)
  IN IF r.ok /\ f[r.path].status # "nocanon" THEN r ELSE [ok |-> FALSE, path |-> << >>]

\* The tree holds directories and regular files only, and does not change
\* while a process runs except by the process's own fs::write; so
\* env::set_current_dir to the parent of a canonical path, and back to a
\* directory env::current_dir returned, succeeds.

\* env::current_dir: an error when the working directory is not there (any
\* more).
CurrentDir(f, wd) == [ok |-> IsDirNode(f, wd), path |-> wd]

\* Path::parent of a canonical path: None for the root.
Parent(abs) ==
  LET names == Parts(abs)
  IN IF names = << >> THEN [some |-> FALSE, path |-> << >>]
     ELSE [some |-> TRUE, path |-> AbsText(SubSeq(names, 1, Len(names) - 1))]

\* Path::strip_prefix(base).unwrap_or(path), both canonical: the components
\* after those of base when base's components start the path's.
StripPrefixOr(abs, base) ==
  LET a == Parts(abs)
      b == Parts(base)
  IN IF Len(b) <= Len(a) /\ SubSeq(a, 1, Len(b)) = b
       THEN JoinWith(SubSeq(a, Len(b) + 1, Len(a)), Slash)
       ELSE abs

\* The whole of crc32 (lines 38-61) on a path: the checksum of the file's
\* bytes, or an error when the open or a read fails.
crc32(f, wd, p) ==
  LET r == Resolve(f, wd, p)
  IN IF r.ok /\ f[r.path].kind = "file" /\ f[r.path].status \notin {"noopen", "readerr"}
       THEN CrcOk(HasherFinalize(HasherUpdate(HasherNew, Bytes(f[r.path].text))))
       ELSE CrcErr

(***************************** enumeration *********************************)
RECURSIVE Perms(_)
\* The orders a directory listing can come in.
Perms(S) ==
  IF S = {} THEN {<< >>}
  ELSE UNION {{<< x >> \o q : q \in Perms(S \ {x})} : x \in S}

\* The nodes a directory holds, by canonical path.
Children(f, abs) == {q \in DOMAIN f : Parent(q).some /\ Parent(q).path = abs}

\* The file name of a node.
FileName(abs) == LET names == Parts(abs) IN names[Len(names)]

RECURSIVE ConcatAll(_)
\* Every way to take one result per entry, in the entries' order: the files
\* appended one result after the other, the reported errors counted.
ConcatAll(choices) ==
  IF choices = << >> THEN {[files |-> << >>, errs |-> 0]}
  ELSE {[files |-> h.files \o t.files, errs |-> h.errs + t.errs] :
          h \in Head(choices), t \in ConcatAll(Tail(choices))}

DescendAlways(recursive, isDir) == isDir

\* recursive && path.is_dir()
Descend(recursive, isDir) == recursive /\ isDir

RECURSIVE get_files(_, _, _, _)
\* get_files(dir, recursive): the results it can return, one for each order
\* read_dir can list the directories in.  ok is FALSE when read_dir fails (the
\* only Err it returns); errs counts the [ERROR] lines it has printed itself.
get_files(f, wd, dir, recursive) ==
  LET r == Resolve(f, wd, dir)
      entry(q) ==
        LET path == PathJoin(dir, FileName(q))
        IN IF f[q].status = "badentry" THEN {[files |-> << >>, errs |-> 1]}
           ELSE IF Descend(recursive, IsDir(f, wd, path))
             THEN {IF g.ok THEN [files |-> g.files, errs |-> g.errs]
                           ELSE [files |-> << >>, errs |-> g.errs + 1] :
                     g \in get_files(f, wd, path, TRUE)}
           ELSE IF IsFile(f, wd, path) THEN {[files |-> << path >>, errs |-> 0]}
           ELSE {[files |-> << >>, errs |-> 0]}
  IN IF ~(r.ok /\ f[r.path].kind = "dir" /\ f[r.path].status # "nolist")
       THEN {[ok |-> FALSE, files |-> << >>, errs |-> 0]}
       ELSE UNION {{[ok |-> TRUE, files |-> c.files, errs |-> c.errs] :
                      c \in ConcatAll([i \in 1..Len(order) |-> entry(order[i])])} :
                   order \in Perms(Children(f, r.path))}

RECURSIVE GatherPaths(_, _, _, _)
\* The loop of get_all_files over the input paths, before the sort.
GatherPaths(f, wd, paths, recursive) ==
  IF paths = << >> THEN {[files |-> << >>, errs |-> 0]}
  ELSE LET path == Head(paths)
           first ==
             IF IsDir(f, wd, path)
               THEN {IF g.ok THEN [files |-> g.files, errs |-> g.errs]
                             ELSE [files |-> << >>, errs |-> g.errs + 1] :
                       g \in get_files(f, wd, path, recursive)}
             ELSE IF IsFile(f, wd, path) THEN {[files |-> << path >>, errs |-> 0]}
             ELSE {[files |-> << >>, errs |-> 0]}
       IN ConcatAll(<< first, GatherPaths(f, wd, Tail(paths), recursive) >>)

\* get_all_files(paths, recursive): the sorted lists it can return, with the
\* number of [ERROR] lines printed on the way.
get_all_files(f, wd, paths, recursive) ==
  {[files |-> SortFiles(g.files), errs |-> g.errs] : g \in GatherPaths(f, wd, paths, recursive)}

(***************************** the program *********************************)
VARIABLES
  fs,         \* the file system
  cwd,        \* the working directory of the process
  args,       \* Args: paths, recursive, out_file, verify
  pc,         \* where the process is: "main", "create_sfv", "create_loop",
              \* "verify_sfv", "verify_loop", "returned", "exited", "panicked"
  files,      \* create_sfv: the list get_all_files returned
  idx,        \* the position of the loop of create_sfv or verify_sfv
  out_text,   \* create_sfv: the document accumulated
  all_ok,     \* the flag of create_sfv or verify_sfv
  printed,    \* create_sfv: the lines printed on stdout
  errors,     \* the [ERROR] lines printed on stderr: those of the enumeration
              \* (listing) and those of the loop of create_sfv (hashing)
  lines,      \* verify_sfv: the lines of the checksum file
  saved_cwd,  \* verify_sfv: its local cwd
  outcomes,   \* verify_sfv: the outcomes printed on stdout
  hashed,     \* the paths crc32 has been called on by this process
  ret,        \* what create_sfv or verify_sfv returned to main
  exit_code,  \* the exit code of the process, -1 while it runs
  run,        \* 1: the process started first, 2: the one started after it
  first       \* what the first process left when the second was started

progVars == << fs, cwd, args, pc, files, idx, out_text, all_ok, printed, errors,
               lines, saved_cwd, outcomes, hashed, ret, exit_code, run, first >>

(***************************** crc32, step by step *************************)
(* crc32 (lines 38-61) on one file, one action per call of read.           *)
(***************************************************************************)
VARIABLES
  crc_pc,       \* "open", "loop", "ok" (returned Ok), "err" (returned Err)
  crc_data,     \* the bytes of the file
  crc_faulty,   \* "ok", "noopen" (File::open fails), "readerr" (a read fails)
  crc_fail_at,  \* for "readerr": reads issued at this offset or later fail
  crc_pos,      \* the offset of fp in the file
  buf,          \* the read buffer
  hasher,       \* the state of the Hasher
  crc_ret,      \* the value returned
  crc_failed    \* a call of open or read has failed

crcVars == << crc_pc, crc_data, crc_faulty, crc_fail_at, crc_pos, buf, hasher, crc_ret, crc_failed >>

\* The byte values file contents are drawn from.
ByteValues == {0, 97, 255}

RECURSIVE SeqsUpTo(_, _)
\* The sequences over S of length at most n.
SeqsUpTo(S, n) ==
  IF n = 0 THEN {<< >>}
  ELSE LET shorter == SeqsUpTo(S, n - 1)
       IN shorter \cup {Append(q, x) : q \in {r \in shorter : Len(r) = n - 1}, x \in S}

\* let mut buf = vec![0; CHUNK_SIZE]
NewBuf == [i \in 1..CHUNK_SIZE |-> 0]

\* What one call of fp.read(&mut buf) can return at offset pos: an error, or
\* the number of bytes read, 0 only at the end of the file and at most the
\* length of the buffer otherwise (a read may be short).
ReadResults(data, pos, faulty, fail_at) ==
  IF faulty = "readerr" /\ pos >= fail_at THEN {[err |-> TRUE, n |-> 0]}
  ELSE IF pos = Len(data) THEN {[err |-> FALSE, n |-> 0]}
  ELSE {[err |-> FALSE, n |-> k] : k \in 1..Min(CHUNK_SIZE, Len(data) - pos)}

\* The buffer after a read of n bytes at offset pos: its first n bytes are the
\* file's, the others keep what they held.
BufAfterRead(b, data, pos, n) ==
  [i \in 1..Len(b) |-> IF i <= n THEN data[pos + i] ELSE b[i]]

UpdateSliceWhole(b, n) == b

\* &buf[..n]
UpdateSlice(b, n) == SubSeq(b, 1, n)

CrcInit ==
  /\ crc_pc = "open"
  /\ crc_data \in SeqsUpTo(ByteValues, MaxBytes)
  /\ crc_faulty \in {"ok", "noopen", "readerr"}
  /\ crc_fail_at \in IF crc_faulty = "readerr" THEN 0..Len(crc_data) ELSE {0}
  /\ crc_pos = 0
  /\ buf = NewBuf
  /\ hasher = HasherNew
  /\ crc_ret = CrcErr
  /\ crc_failed = FALSE

\* File::open(file)?, then the buffer and the hasher
CrcOpen ==
  /\ crc_pc = "open"
  /\ IF crc_faulty = "noopen"
       THEN /\ crc_pc' = "err"
            /\ crc_failed' = TRUE
       ELSE /\ crc_pc' = "loop"
            /\ crc_failed' = FALSE
  /\ crc_ret' = CrcErr
  /\ buf' = NewBuf
  /\ hasher' = HasherNew
  /\ UNCHANGED << crc_data, crc_faulty, crc_fail_at, crc_pos >>
  /\ UNCHANGED progVars

\* One turn of the loop: read, break on 0, update otherwise.
CrcIter ==
  /\ crc_pc = "loop"
  /\ \E r \in ReadResults(crc_data, crc_pos, crc_faulty, crc_fail_at) :
       IF r.err
         THEN /\ crc_pc' = "err"
              /\ crc_ret' = CrcErr
              /\ crc_failed' = TRUE
              /\ UNCHANGED << buf, hasher, crc_pos >>
       ELSE IF r.n = 0
         THEN /\ crc_pc' = "ok"
              /\ crc_ret' = CrcOk(HasherFinalize(hasher))
              /\ UNCHANGED << buf, hasher, crc_pos, crc_failed >>
       ELSE /\ buf' = BufAfterRead(buf, crc_data, crc_pos, r.n)
            /\ hasher' = HasherUpdate(hasher, UpdateSlice(buf', r.n))
            /\ crc_pos' = crc_pos + r.n
            /\ UNCHANGED << crc_pc, crc_ret, crc_failed >>
  /\ UNCHANGED << crc_data, crc_faulty, crc_fail_at >>
  /\ UNCHANGED progVars

vars == << crcVars, progVars >>

\* Texts of the model.
NoText == << >>
T_root == << "/" >>
T_w == << "/", "w" >>
T_wd == T_w \o << "/", "d" >>
T_wdt == T_w \o << "/", "d", ".", "t" >>
T_wdx == T_wd \o << "/", "x" >>
T_wdu == T_wd \o << "/", "u" >>
T_wds == T_wd \o << "/", "s" >>
T_wdsy == T_wds \o << "/", "y" >>
T_wdv == T_wd \o << "/", "v", ".", "s", "f", "v" >>
T_o == << "/", "o" >>
T_gone == << "/", "g" >>

\* A directory /w holding the file d.t and the directory d, which holds the
\* file x and the directory s with its file y; and an empty directory /o.
BaseFs ==
  (T_root :> Dir("ok")) @@ (T_w :> Dir("ok")) @@ (T_o :> Dir("ok"))
  @@ (T_wd :> Dir("ok")) @@ (T_wdt :> File(<< "b" >>, "ok"))
  @@ (T_wdx :> File(<< "a" >>, "ok")) @@ (T_wds :> Dir("ok"))
  @@ (T_wdsy :> File(<< "a", "b" >>, "ok"))

\* The one call that fails in a run, if any.
Faults ==
  { [at |-> T_root, status |-> "ok"],
    [at |-> T_wdx, status |-> "noopen"], [at |-> T_wdx, status |-> "readerr"],
    [at |-> T_wdx, status |-> "nocanon"], [at |-> T_wdx, status |-> "badentry"],
    [at |-> T_wds, status |-> "nolist"], [at |-> T_wd, status |-> "nolist"] }

WithFault(f, fault) == [f EXCEPT ![fault.at].status = fault.status]

None == [some |-> FALSE, path |-> NoText]
Some(p) == [some |-> TRUE, path |-> p]

NoErrors == [listing |-> 0, hashing |-> 0]

NoRet == [state |-> "none", value |-> FALSE]
RetOk(b) == [state |-> "ok", value |-> b]
RetErr == [state |-> "err", value |-> FALSE]

NoFirst == [files |-> << >>, exit_code |-> -1, errors |-> NoErrors, printed |-> << >>]

CrcIdle ==
  /\ crc_pc = "idle"
  /\ crc_data = << >>
  /\ crc_faulty = "ok"
  /\ crc_fail_at = 0
  /\ crc_pos = 0
  /\ buf = NewBuf
  /\ hasher = HasherNew
  /\ crc_ret = CrcErr
  /\ crc_failed = FALSE

\* A process as main finds it.
Fresh ==
  /\ pc = "main"
  /\ files = << >>
  /\ idx = 0
  /\ out_text = NoText
  /\ all_ok = TRUE
  /\ printed = << >>
  /\ errors = NoErrors
  /\ lines = << >>
  /\ saved_cwd = NoText
  /\ outcomes = << >>
  /\ hashed = << >>
  /\ ret = NoRet
  /\ exit_code = -1

ProgIdle ==
  /\ Fresh
  /\ fs = BaseFs
  /\ cwd = T_w
  /\ args = [paths |-> << >>, recursive |-> FALSE, out_file |-> None, verify |-> FALSE]
  /\ run = 1
  /\ first = NoFirst

\* main: the call of verify_sfv or create_sfv the arguments select.
main_call ==
  /\ pc = "main"
  /\ pc' = IF args.verify THEN "verify_sfv" ELSE "create_sfv"
  /\ UNCHANGED << fs, cwd, args, files, idx, out_text, all_ok, printed, errors, lines,
                  saved_cwd, outcomes, hashed, ret, exit_code, run, first >>
  /\ UNCHANGED crcVars

ExitCodeStrict(r, errs) ==
  IF r.state = "ok" /\ r.value /\ errs.listing = 0 THEN 0 ELSE 1

\* The exit code main ends with: exit(1) unless the call returned Ok(true).
ExitCode(r, errs) == IF r.state = "ok" /\ r.value THEN 0 ELSE 1

\* main: the end of the process once create_sfv or verify_sfv has returned.
main_exit ==
  /\ pc = "returned"
  /\ pc' = "exited"
  /\ exit_code' = ExitCode(ret, errors)
  /\ UNCHANGED << fs, cwd, args, files, idx, out_text, all_ok, printed, errors, lines,
                  saved_cwd, outcomes, hashed, ret, run, first >>
  /\ UNCHANGED crcVars

(***************************** create_sfv **********************************)
\* let files = get_all_files(paths, recursive), out_text and all_ok
create_sfv_enumerate ==
  /\ pc = "create_sfv"
  /\ \E g \in get_all_files(fs, cwd, args.paths, args.recursive) :
       /\ files' = g.files
       /\ errors' = [errors EXCEPT !.listing = @ + g.errs]
  /\ out_text' = NoText
  /\ all_ok' = TRUE
  /\ idx' = 1
  /\ pc' = "create_loop"
  /\ UNCHANGED << fs, cwd, args, printed, lines, saved_cwd, outcomes, hashed, ret,
                  exit_code, run, first >>
  /\ UNCHANGED crcVars

\* The line create_sfv prints and writes for a file.
RecordLine(shown, checksum) == shown \o << " " >> \o Hex8(checksum)

\* The turn of the loop with the errors propagated by `?`.
create_sfv_file_or_abort ==
  /\ pc = "create_loop"
  /\ idx <= Len(files)
  /\ LET file == files[idx]
         sum == crc32(fs, cwd, file)
         canon == Canonicalize(fs, cwd, file)
         here == CurrentDir(fs, cwd)
     IN IF sum.ok /\ canon.ok /\ here.ok
          THEN LET line == RecordLine(StripPrefixOr(canon.path, here.path), sum.val)
               IN /\ printed' = Append(printed, line)
                  /\ out_text' = out_text \o line \o << "\n" >>
                  /\ idx' = idx + 1
                  /\ UNCHANGED << pc, ret >>
          ELSE /\ ret' = RetErr
               /\ pc' = "returned"
               /\ UNCHANGED << printed, out_text, idx >>
  /\ hashed' = Append(hashed, files[idx])
  /\ UNCHANGED << fs, cwd, args, files, all_ok, errors, lines, saved_cwd, outcomes,
                  exit_code, run, first >>
  /\ UNCHANGED crcVars

\* One turn of the loop of create_sfv, on files[idx]: an error of crc32 or of
\* fs::canonicalize is printed and the loop goes on; an error of
\* env::current_dir is returned.
create_sfv_file ==
  /\ pc = "create_loop"
  /\ idx <= Len(files)
  /\ LET file == files[idx]
         sum == crc32(fs, cwd, file)
         canon == Canonicalize(fs, cwd, file)
         here == CurrentDir(fs, cwd)
     IN IF sum.ok /\ canon.ok
          THEN IF here.ok
                 THEN LET line == RecordLine(StripPrefixOr(canon.path, here.path), sum.val)
                      IN /\ printed' = Append(printed, line)
                         /\ out_text' = out_text \o line \o << "\n" >>
                         /\ idx' = idx + 1
                         /\ UNCHANGED << all_ok, errors, pc, ret >>
                 ELSE /\ ret' = RetErr
                      /\ pc' = "returned"
                      /\ UNCHANGED << printed, out_text, idx, all_ok, errors >>
          ELSE /\ errors' = [errors EXCEPT !.hashing = @ + 1]
               /\ all_ok' = FALSE
               /\ idx' = idx + 1
               /\ UNCHANGED << printed, out_text, pc, ret >>
  /\ hashed' = Append(hashed, files[idx])
  /\ UNCHANGED << fs, cwd, args, files, lines, saved_cwd, outcomes, exit_code, run, first >>
  /\ UNCHANGED crcVars

\* Where fs::write(path, ..) puts the file: the directory of the path must
\* exist, and the path must not name a directory.
WriteTarget(f, wd, p) ==
  LET parts == Parts(p)
      dir == IF parts = << >> THEN [ok |-> FALSE, path |-> NoText]
             ELSE Walk(f, IF IsAbsolute(p) THEN << >> ELSE Parts(wd),
                       SubSeq(parts, 1, Len(parts) - 1))
      target == PathJoin(dir.path, parts[Len(parts)])
  IN IF dir.ok /\ f[dir.path].kind = "dir" /\ ~IsDirNode(f, target)
       THEN [ok |-> TRUE, path |-> target]
       ELSE [ok |-> FALSE, path |-> NoText]

\* The file system after a write of a text to a path.
WriteFile(f, abs, text) ==
  [q \in DOMAIN f \cup {abs} |-> IF q = abs THEN File(text, "ok") ELSE f[q]]

\* After the loop of create_sfv: the output file, if asked for, and the return.
create_sfv_finish ==
  /\ pc = "create_loop"
  /\ idx > Len(files)
  /\ IF args.out_file.some
       THEN LET t == WriteTarget(fs, cwd, args.out_file.path)
            IN IF t.ok
                 THEN /\ fs' = WriteFile(fs, t.path, out_text)
                      /\ ret' = RetOk(all_ok)
                 ELSE /\ ret' = RetErr
                      /\ UNCHANGED fs
       ELSE /\ ret' = RetOk(all_ok)
            /\ UNCHANGED fs
  /\ pc' = "returned"
  /\ UNCHANGED << cwd, args, files, idx, out_text, all_ok, printed, errors, lines,
                  saved_cwd, outcomes, hashed, exit_code, run, first >>
  /\ UNCHANGED crcVars

(***************************** verify_sfv **********************************)
\* str::lines: the pieces between line feeds, without the empty piece after
\* a final line feed, each without the carriage return that ends it.
Lines(data) ==
  LET pieces == SplitOn(data, "\n")
      kept == IF pieces[Len(pieces)] = NoText THEN SubSeq(pieces, 1, Len(pieces) - 1)
              ELSE pieces
      strip(l) == IF l # NoText /\ l[Len(l)] = "\r" THEN SubSeq(l, 1, Len(l) - 1) ELSE l
  IN [i \in 1..Len(kept) |-> strip(kept[i])]

\* fs::read_to_string
ReadToString(f, wd, p) ==
  LET r == Resolve(f, wd, p)
  IN IF r.ok /\ f[r.path].kind = "file" /\ f[r.path].status \notin {"noopen", "readerr"}
       THEN [ok |-> TRUE, text |-> f[r.path].text]
       ELSE [ok |-> FALSE, text |-> NoText]

\* The number of characters that make the first k bytes of a text, or -1 when
\* byte k is inside a character or outside the text.
CharsInBytes(s, k) ==
  IF \E m \in 0..Len(s) : ByteLen(SubSeq(s, 1, m)) = k
    THEN CHOOSE m \in 0..Len(s) : ByteLen(SubSeq(s, 1, m)) = k
    ELSE -1

\* The width of the checksum field, in bytes.
ChecksumWidth == 8

SplitLineNeedsPath(line) ==
  LET at == ByteLen(line) - ChecksumWidth
      m == IF at <= 0 THEN -1 ELSE CharsInBytes(line, at)
  IN IF m < 0 THEN [panic |-> TRUE, path |-> NoText, checksum |-> NoText]
     ELSE [panic |-> FALSE, path |-> Trim(SubSeq(line, 1, m)),
           checksum |-> ToUppercase(SubSeq(line, m + 1, Len(line)))]

\* line[..line.len() - 8] and line[line.len() - 8..]: the subtraction
\* overflows (a panic, or a wrapped index and then a panic) on a line shorter
\* than 8 bytes, and the slice panics when the index is inside a character.
SplitLine(line) ==
  LET at == ByteLen(line) - ChecksumWidth
      m == IF at < 0 THEN -1 ELSE CharsInBytes(line, at)
  IN IF m < 0 THEN [panic |-> TRUE, path |-> NoText, checksum |-> NoText]
     ELSE [panic |-> FALSE, path |-> Trim(SubSeq(line, 1, m)),
           checksum |-> ToUppercase(SubSeq(line, m + 1, Len(line)))]

\* line.is_empty() || line.starts_with(';')
IsSkipped(line) == line = NoText \/ line[1] = ";"

\* The outcome printed for a record.
Outcome(f, wd, path, checksum) ==
  LET sum == crc32(f, wd, path)
      computed == Hex8(sum.val)
  IN IF ~sum.ok THEN [path |-> path, kind |-> "ERROR", computed |-> NoText, expected |-> NoText]
     ELSE IF computed = checksum
       THEN [path |-> path, kind |-> "OK", computed |-> NoText, expected |-> NoText]
     ELSE [path |-> path, kind |-> "FAILED", computed |-> computed, expected |-> checksum]

AllOkUnlessError(ok, o) == ok /\ o.kind # "ERROR"

\* all_ok after an outcome: false once an outcome is FAILED or ERROR.
AllOkAfter(ok, o) == ok /\ o.kind = "OK"

LineUntrimmed(raw) == raw

\* line = line.trim()
LineOf(raw) == Trim(raw)

\* verify_sfv up to its loop: the file read, the working directory kept in
\* cwd and changed to the directory of the file.
verify_sfv_start ==
  /\ pc = "verify_sfv"
  /\ LET sfv_file == args.paths[1]
         data == ReadToString(fs, cwd, sfv_file)
         here == CurrentDir(fs, cwd)
         canon == Canonicalize(fs, cwd, sfv_file)
         dir == Parent(canon.path)
     IN IF ~data.ok \/ ~here.ok \/ ~canon.ok
          THEN /\ ret' = RetErr
               /\ pc' = "returned"
               /\ UNCHANGED << cwd, lines, saved_cwd, all_ok, idx >>
          ELSE /\ lines' = Lines(data.text)
               /\ saved_cwd' = here.path
               /\ cwd' = IF dir.some THEN dir.path ELSE cwd
               /\ all_ok' = TRUE
               /\ idx' = 1
               /\ pc' = "verify_loop"
               /\ UNCHANGED ret
  /\ UNCHANGED << fs, args, files, out_text, printed, errors, outcomes, hashed, exit_code,
                  run, first >>
  /\ UNCHANGED crcVars

\* One turn of the loop of verify_sfv, on lines[idx].  A panic unwinds out of
\* verify_sfv and main and ends the process with exit code 101.
verify_sfv_line ==
  /\ pc = "verify_loop"
  /\ idx <= Len(lines)
  /\ LET line == LineOf(lines[idx])
         rec == SplitLine(line)
     IN IF IsSkipped(line)
          THEN /\ idx' = idx + 1
               /\ UNCHANGED << pc, outcomes, all_ok, hashed, exit_code >>
        ELSE IF rec.panic
          THEN /\ pc' = "panicked"
               /\ exit_code' = 101
               /\ UNCHANGED << idx, outcomes, all_ok, hashed >>
        ELSE LET o == Outcome(fs, cwd, rec.path, rec.checksum)
             IN /\ outcomes' = Append(outcomes, o)
                /\ hashed' = Append(hashed, rec.path)
                /\ all_ok' = AllOkAfter(all_ok, o)
                /\ idx' = idx + 1
                /\ UNCHANGED << pc, exit_code >>
  /\ UNCHANGED << fs, cwd, args, files, out_text, printed, errors, lines, saved_cwd, ret,
                  run, first >>
  /\ UNCHANGED crcVars

\* After the loop of verify_sfv: env::set_current_dir(&cwd) and Ok(all_ok).
verify_sfv_finish ==
  /\ pc = "verify_loop"
  /\ idx > Len(lines)
  /\ cwd' = saved_cwd
  /\ ret' = RetOk(all_ok)
  /\ pc' = "returned"
  /\ UNCHANGED << fs, args, files, idx, out_text, all_ok, printed, errors, lines,
                  saved_cwd, outcomes, hashed, exit_code, run, first >>
  /\ UNCHANGED crcVars

(***************************** specifications ******************************)
\* The most input paths of a run.
MaxPaths == 2
\* The most lines of a checksum file.
MaxLines == 2

T_dot == << "." >>
T_d == << "d" >>
T_dt == << "d", ".", "t" >>
T_osfv == << "o", ".", "s", "f", "v" >>

\* The paths given on the command line: a directory and a file of /w, the
\* same file by its absolute path, the working directory.  From /w/d the
\* first two name nothing.
InputPaths == { T_d, T_dt, T_wdt, T_dot }

\* The --out-file given on the command line.
OutFiles == { None, Some(T_osfv), Some(T_d \o << Slash >> \o T_osfv), Some(T_o \o << Slash >> \o T_osfv) }

\* The working directories a process is started in: /w, /w/d, and a
\* directory that has been removed.
WorkingDirs == { T_w, T_wd, T_gone }

\* A generation run: any non-empty list of input paths, with or without
\* --recursive and --out-file, with at most one failing call.
Init ==
  /\ CrcIdle
  /\ Fresh
  /\ \E fault \in Faults : fs = WithFault(BaseFs, fault)
  /\ cwd \in WorkingDirs
  /\ args \in [paths : SeqsUpTo(InputPaths, MaxPaths) \ {<< >>}, recursive : BOOLEAN,
               out_file : OutFiles, verify : {FALSE}]
  /\ run = 1
  /\ first = NoFirst

\* A second process: main with --verify on the output file the first one
\* wrote, started in the same working directory.
verify_written ==
  /\ pc = "exited"
  /\ run = 1
  /\ ~args.verify
  /\ args.out_file.some
  /\ ret.state = "ok"
  /\ run' = 2
  /\ first' = [files |-> files, exit_code |-> exit_code, errors |-> errors, printed |-> printed]
  /\ args' = [paths |-> << args.out_file.path >>, recursive |-> FALSE, out_file |-> None,
              verify |-> TRUE]
  /\ pc' = "main"
  /\ files' = << >>
  /\ idx' = 0
  /\ out_text' = NoText
  /\ all_ok' = TRUE
  /\ printed' = << >>
  /\ errors' = NoErrors
  /\ lines' = << >>
  /\ saved_cwd' = NoText
  /\ outcomes' = << >>
  /\ hashed' = << >>
  /\ ret' = NoRet
  /\ exit_code' = -1
  /\ UNCHANGED << fs, cwd >>
  /\ UNCHANGED crcVars

Next ==
  \/ main_call
  \/ create_sfv_enumerate
  \/ create_sfv_file
  \/ create_sfv_finish
  \/ main_exit
  \/ verify_written
  \/ verify_sfv_start
  \/ verify_sfv_line
  \/ verify_sfv_finish

Spec == Init /\ [][Next]_vars

\* The lines checksum files are made of.  /w/d holds x, whose text "a" has
\* the CRC-32 E8B7BE43, and u, which cannot be read.
L_blank == NoText
L_comment == << ";", " ", "c" >>
L_ok == << "x", " ", "E", "8", "B", "7", "B", "E", "4", "3" >>
L_lower == << " ", "x", " ", " ", "e", "8", "b", "7", "b", "e", "4", "3", " ", "\r" >>
L_failed == << "x", " ", "0", "0", "0", "0", "0", "0", "0", "0" >>
L_missing == << "n", "x", " ", "E", "8", "B", "7", "B", "E", "4", "3" >>
L_unreadable == << "u", " ", "E", "8", "B", "7", "B", "E", "4", "3" >>
L_short == << "a", "b", "c" >>
L_eight == << "E", "8", "B", "7", "B", "E", "4", "3" >>
L_eight_bytes == << EAcute, EAcute, EAcute, EAcute >>
L_inside == << "x", " ", EAcute, "8", "B", "7", "B", "E", "4", "3" >>
L_indented_comment == << " ", ";", "x", " ", "E", "8", "B", "7", "B", "E", "4", "3" >>

LinePool ==
  { L_blank, L_comment, L_ok, L_lower, L_failed, L_missing, L_unreadable, L_short,
    L_eight, L_eight_bytes, L_inside, L_indented_comment }

RECURSIVE Document(_)
\* The text of a checksum file: every line ended by a line feed.
Document(ls) == IF ls = << >> THEN NoText ELSE Head(ls) \o << "\n" >> \o Document(Tail(ls))

T_vsfv == << "v", ".", "s", "f", "v" >>

\* The paths --verify is given: the file /w/d/v.sfv by relative paths (each
\* names nothing from the other working directory) and by its absolute path.
SfvArgs == { T_vsfv, T_d \o << Slash >> \o T_vsfv, T_wdv }

\* A verification run: any checksum file of at most MaxLines lines in /w/d.
InitVerify ==
  /\ CrcIdle
  /\ Fresh
  /\ \E doc \in SeqsUpTo(LinePool, MaxLines) :
       fs = (T_wdu :> File(<< "a" >>, "noopen")) @@ (T_wdv :> File(Document(doc), "ok"))
              @@ BaseFs
  /\ cwd \in WorkingDirs
  /\ args \in [paths : {<< p >> : p \in SfvArgs}, recursive : {FALSE}, out_file : {None},
               verify : {TRUE}]
  /\ run = 1
  /\ first = NoFirst

NextVerify ==
  \/ main_call
  \/ verify_sfv_start
  \/ verify_sfv_line
  \/ verify_sfv_finish
  \/ main_exit

SpecVerify == InitVerify /\ [][NextVerify]_vars

CrcNext == CrcOpen \/ CrcIter

InitCrc == CrcInit /\ ProgIdle

SpecCrc == InitCrc /\ [][CrcNext]_vars

(***************************** claims *************************************)
Stopped == pc \in {"returned", "exited", "panicked"}

\* C1: whenever verify_sfv has stopped after changing the working directory
\* (a return or a failure in its loop), the working directory is again the
\* one it was called in, which it keeps in cwd (here saved_cwd).
C1_CwdRestoredOnEveryExit ==
  (args.verify /\ Stopped /\ saved_cwd # NoText) => cwd = saved_cwd

\* A generation run that has ended.
Generated == run = 1 /\ ~args.verify /\ pc = "exited"

\* The file can be hashed and its path made canonical.
Hashable(file) == crc32(fs, cwd, file).ok /\ Canonicalize(fs, cwd, file).ok

\* The output file asked for is there.
OutFileExists == args.out_file.some /\ IsFile(fs, cwd, args.out_file.path)

\* env::current_dir succeeds.
CwdReadable == CurrentDir(fs, cwd).ok

\* The directory the output file is to be written in is there.
OutFileWritable == args.out_file.some /\ WriteTarget(fs, cwd, args.out_file.path).ok

RECURSIVE ExpectedLines(_)
\* The lines of the files of a list that can be hashed, in the list's order.
ExpectedLines(fileList) ==
  IF fileList = << >> THEN << >>
  ELSE (IF Hashable(Head(fileList))
          THEN << RecordLine(StripPrefixOr(Canonicalize(fs, cwd, Head(fileList)).path, cwd),
                             crc32(fs, cwd, Head(fileList)).val) >>
          ELSE << >>)
       \o ExpectedLines(Tail(fileList))

\* C2: when a generation run with an output file has ended with every file
\* hashed (exit code 0) and the file it wrote is then verified, every record
\* gets the outcome OK, there is one outcome for each file, and the
\* verification ends with exit code 0.
C2_RoundTripAllOk ==
  (run = 2 /\ pc = "exited" /\ first.exit_code = 0) =>
    /\ exit_code = 0
    /\ Len(outcomes) = Len(first.files)
    /\ \A i \in 1..Len(outcomes) : outcomes[i].kind = "OK"

\* C3 as stated: when a file cannot be hashed or made canonical, create_sfv
\* returns the error, has processed no later file and has written no output
\* file.
C3_FailureAbortsGeneration ==
  (Generated /\ \E i \in 1..Len(files) : ~Hashable(files[i])) =>
    /\ ret.state = "err"
    /\ Len(hashed) = (CHOOSE i \in 1..Len(files) :
                        ~Hashable(files[i]) /\ \A j \in 1..(i - 1) : Hashable(files[j]))
    /\ ~OutFileExists

\* C3, amended: a file that cannot be hashed or made canonical does not end
\* the run: every enumerated file is processed, the lines of the files that
\* could be hashed are printed, the output file asked for is written with
\* exactly these lines whenever its directory exists, and the exit code is 1.
\* Only an error of env::current_dir, met at the first file that could be
\* hashed, makes create_sfv return at once, with no output file.
C3_FailureIsReportedAndSkipped ==
  Generated =>
    IF CwdReadable \/ \A i \in 1..Len(files) : ~Hashable(files[i])
      THEN /\ hashed = files
           /\ printed = ExpectedLines(files)
           /\ ((\E i \in 1..Len(files) : ~Hashable(files[i])) => exit_code = 1)
           /\ (OutFileWritable =>
                 /\ ret.state = "ok"
                 /\ ReadToString(fs, cwd, args.out_file.path) =
                      [ok |-> TRUE, text |-> Document(ExpectedLines(files))])
      ELSE /\ ret = RetErr
           /\ printed = << >>
           /\ ~OutFileExists

\* A file that fails is followed by a file that is hashed, and the output
\* file is written.
C3_Witness ==
  /\ Generated
  /\ OutFileExists
  /\ \E i, j \in 1..Len(files) : i < j /\ ~Hashable(files[i]) /\ Hashable(files[j])

\* C4 as stated: a checksum file made of record lines longer than 8
\* characters is processed to its last line.
C4_LongLinesNeverAbort ==
  (args.verify /\ lines # << >>
     /\ \A i \in 1..Len(lines) : ~IsSkipped(Trim(lines[i])) /\ Len(Trim(lines[i])) > 8)
  => pc # "panicked"

\* The line is a comment or blank, or a record longer than 8 bytes whose
\* last 8 bytes start at a character boundary.
WellFormedLine(raw) ==
  LET line == Trim(raw)
  IN \/ line = NoText
     \/ line[1] = ";"
     \/ /\ ByteLen(line) > 8
        /\ \E m \in 0..Len(line) : ByteLen(SubSeq(line, 1, m)) = ByteLen(line) - 8

\* The lines that are neither blank nor comments, trimmed.
RecordLines(ls) ==
  SelectSeq([i \in 1..Len(ls) |-> Trim(ls[i])], LAMBDA line : line # NoText /\ line[1] # ";")

\* C4, amended: when every record line of the checksum file is longer than 8
\* bytes and its last 8 bytes start at a character boundary, no outcome ends
\* the run: verify_sfv goes through every line and returns Ok, with true
\* exactly when every outcome is OK.
C4_RecordFailureNeverAborts ==
  (args.verify /\ \A i \in 1..Len(lines) : WellFormedLine(lines[i])) =>
    /\ pc # "panicked"
    /\ (pc \in {"returned", "exited"} /\ saved_cwd # NoText) =>
         /\ idx = Len(lines) + 1
         /\ Len(outcomes) = Len(RecordLines(lines))
         /\ ret = RetOk(\A i \in 1..Len(outcomes) : outcomes[i].kind = "OK")
         /\ (pc = "exited" => (exit_code = 0 <=> ret.value))

\* An ERROR outcome is followed by an OK outcome.
C4_Witness ==
  /\ args.verify
  /\ pc = "exited"
  /\ Len(outcomes) = 2
  /\ outcomes[1].kind = "ERROR"
  /\ outcomes[2].kind = "OK"
  /\ exit_code = 1

\* C5 as stated: when the enumeration has reported an error, no file is
\* hashed and the exit code is not 0.
C5_EnumerationErrorIsFatal ==
  (Generated /\ errors.listing > 0) => (exit_code # 0 /\ hashed = << >>)

\* C5, amended: an error of the enumeration is reported and skipped; the
\* files that were enumerated are processed, and the exit code is 0 exactly
\* when each of them could be hashed, the working directory could be read and
\* the output file asked for could be written, whatever the enumeration
\* reported.
C5_EnumerationErrorIsSkipped ==
  Generated =>
    /\ CwdReadable => Len(hashed) = Len(files)
    /\ exit_code = IF /\ \A i \in 1..Len(files) : Hashable(files[i])
                      /\ (files = << >> \/ CwdReadable)
                      /\ (args.out_file.some => OutFileExists)
                   THEN 0 ELSE 1

\* The enumeration has reported an error, files of other directories have
\* been hashed, and the exit code is 0.
C5_Witness ==
  /\ Generated
  /\ errors.listing > 0
  /\ printed # << >>
  /\ exit_code = 0

\* The list create_sfv works on is there.
Enumerated == run = 1 /\ ~args.verify /\ pc \in {"create_loop", "returned", "exited"}

\* C6 as stated: the list get_all_files returns is sorted by the paths as
\* character strings.
C6_SortedAsStrings ==
  Enumerated => \A i, j \in 1..Len(files) : i < j => StrCmp(files[i], files[j]) <= 0

\* C6, amended: the list get_all_files returns is sorted by the order of
\* paths, which compares them component by component, whatever order the
\* directories were listed in; the lines printed follow the list's order.
C6_SortedByComponents ==
  Enumerated =>
    /\ \A i, j \in 1..Len(files) : i < j => PathCmp(files[i], files[j]) <= 0
    /\ pc = "create_loop" => printed = ExpectedLines(SubSeq(files, 1, idx - 1))

\* A list of several files in which the two orders differ.
C6_Witness ==
  /\ Enumerated
  /\ Len(files) >= 3
  /\ \E i, j \in 1..Len(files) : i < j /\ StrCmp(files[i], files[j]) > 0

\* The names of a below the names of b.
IsBelow(a, b) == Len(Parts(b)) < Len(Parts(a)) /\ SubSeq(Parts(a), 1, Len(Parts(b))) = Parts(b)

\* C8: for one input directory whose listings succeed, the list holds each
\* file directly in the directory once, and each file deeper in it once if
\* and only if recursive is set.
C8_RecursionSelectsSubdirectoryFiles ==
  (/\ run = 1 /\ ~args.verify /\ pc = "create_loop"
   /\ Len(args.paths) = 1
   /\ IsDir(fs, cwd, args.paths[1])
   /\ \A q \in DOMAIN fs : fs[q].status \notin {"nolist", "badentry"})
  => LET top == Resolve(fs, cwd, args.paths[1]).path
         direct == {q \in DOMAIN fs : fs[q].kind = "file" /\ Parent(q).path = top}
         deeper == {q \in DOMAIN fs : fs[q].kind = "file" /\ IsBelow(q, top)} \ direct
     IN /\ {Resolve(fs, cwd, files[i]).path : i \in 1..Len(files)} =
             direct \cup (IF args.recursive THEN deeper ELSE {})
        /\ Len(files) = Cardinality(direct) + (IF args.recursive THEN Cardinality(deeper) ELSE 0)

\* A directory with a file, a subdirectory and a file two levels down,
\* enumerated recursively.
C8_Witness ==
  /\ run = 1 /\ ~args.verify /\ pc = "create_loop"
  /\ args.paths = << T_dot >>
  /\ cwd = T_w
  /\ args.recursive
  /\ Len(files) = 3
  /\ \A q \in DOMAIN fs : fs[q].status \notin {"nolist", "badentry"}

\* A turn of the loop of verify_sfv on a record line.
OnRecordLine == pc = "verify_loop" /\ idx <= Len(lines) /\ ~IsSkipped(Trim(lines[idx]))

\* C9 as stated: a record line of at most 8 characters ends the run, with no
\* outcome.
C9_EightOrLessIsFatal ==
  [][(OnRecordLine /\ Len(Trim(lines[idx])) <= 8) =>
       (pc' = "panicked" /\ outcomes' = outcomes)]_vars

\* C9, amended: a record line of 1 to 7 bytes ends the run in the slice,
\* with no outcome and no later line processed; a line of exactly 8 bytes
\* does not: it is a record with the empty path, its outcome is ERROR and the
\* loop goes on.
C9_ShortLineIsFatalEightIsNot ==
  /\ [][(OnRecordLine /\ ByteLen(Trim(lines[idx])) < 8) =>
          (pc' = "panicked" /\ outcomes' = outcomes /\ idx' = idx /\ hashed' = hashed)]_vars
  /\ [][(OnRecordLine /\ ByteLen(Trim(lines[idx])) = 8) =>
          /\ pc' = "verify_loop"
          /\ idx' = idx + 1
          /\ outcomes' = Append(outcomes, [path |-> NoText, kind |-> "ERROR",
                                           computed |-> NoText, expected |-> NoText])
          /\ ~all_ok']_vars
  /\ [][pc # "panicked"]_vars

\* A line of 8 bytes has got its outcome, and the short line after it has
\* ended the run.
C9_Witness ==
  /\ pc = "panicked"
  /\ idx = 2
  /\ ByteLen(Trim(lines[1])) = 8
  /\ ByteLen(Trim(lines[2])) < 8
  /\ Len(outcomes) = 1

\* The path of a record line: what precedes its last 8 bytes, trimmed.
PathField(line) ==
  LET m == CHOOSE k \in 0..Len(line) : ByteLen(SubSeq(line, k + 1, Len(line))) = 8
  IN Trim(SubSeq(line, 1, m))

\* C10: the outcomes are those of the record lines gone through, one each and
\* in their order; blank lines and comments add no outcome, no call of crc32
\* and no change of the result.
C10_OneOutcomePerRecordLine ==
  (args.verify /\ pc \in {"verify_loop", "returned", "exited", "panicked"} /\ saved_cwd # NoText) =>
    LET done == RecordLines(SubSeq(lines, 1, idx - 1))
    IN /\ Len(outcomes) = Len(done)
       /\ \A i \in 1..Len(done) :
            /\ outcomes[i].path = PathField(done[i])
            /\ hashed[i] = outcomes[i].path
       /\ Len(hashed) = Len(done)
       /\ all_ok = \A i \in 1..Len(outcomes) : outcomes[i].kind = "OK"

\* A checksum file of a comment and a record, gone through.
C10_Witness ==
  /\ args.verify
  /\ pc = "returned"
  /\ Len(lines) = 2
  /\ IsSkipped(Trim(lines[1]))
  /\ Len(outcomes) = 1
  /\ outcomes[1].kind = "OK"

\* C7: crc32 returns the reference CRC-32/ISO-HDLC of the file's bytes however
\* the reads split them, 0x00000000 for the empty file, and an error and no
\* checksum as soon as a call of open or read has failed.
C7_ChunkedCrcIsReference ==
  /\ crc_pc = "ok" =>
       /\ ~crc_failed
       /\ crc_ret = CrcOk(Crc32Ref(crc_data))
       /\ (crc_data = << >> => Hex8(crc_ret.val) = << "0", "0", "0", "0", "0", "0", "0", "0" >>)
  /\ crc_failed => crc_pc = "err" /\ ~crc_ret.ok
  /\ crc_pc = "err" => crc_failed

\* A file longer than the buffer, read in several chunks to its end.
C7_Witness ==
  /\ crc_pc = "ok"
  /\ Len(crc_data) > CHUNK_SIZE
  /\ crc_data[1] # crc_data[Len(crc_data)]
  /\ crc_ret.val # Zero32

===========================================================================
